---- MODULE Spec2Model ----
(***************************************************************************)
(* Composite spatial transforms (composite.py) and cubic B-spline          *)
(* free-form deformations (bspline.py) of deepali.                         *)
(*                                                                         *)
(* Points and matrices are integer valued and two dimensional.  A linear   *)
(* member carries the tensor its tensor() returns, in one of the three     *)
(* layouts the code accepts: (D,1) translation, (D,D) affine, (D,D+1)      *)
(* homogeneous.  A non-rigid member is the fold                            *)
(* (x, y) -> (x, y + sgn * |x|), a bijection of the integer plane that is  *)
(* not linear.                                                             *)
(***************************************************************************)
EXTENDS Integers, Sequences, FiniteSets, TLC

VARIABLES
    objs,       \* composites created so far, in creation order
    origin,     \* origin[j] = i when objs[j] was returned by objs[i].inverse(), else 0
    last,       \* the last call on a composite and what it returned or raised
    fields,     \* B-spline transforms created so far, in creation order
    store,      \* coefficient tensors; fields refer to them by index
    kcalls,     \* kcalls[s]: number of calls of K.cubic_bspline1d(s) so far
    flast       \* the last call on a B-spline transform

vars == <<objs, origin, last, fields, store, kcalls, flast>>

cvars == <<objs, origin, last>>

fvars == <<fields, store, kcalls, flast>>

(***************************************************************************)
(* Bounds                                                                  *)
(***************************************************************************)
MaxMembers == 3
MaxObjs == 2
MaxFields == 2
MaxVer == 1

(***************************************************************************)
(* Grid domains: cube center, direction, extent, sampling shape, alignment *)
(***************************************************************************)
MkGrid(c, e, sh, al) ==
    [center |-> c, direction |-> 1, extent |-> e, shape |-> sh, align |-> al]

GridA == MkGrid(0, 4, <<3>>, TRUE)

GridA5 == MkGrid(0, 4, <<5>>, TRUE)

GridB == MkGrid(1, 4, <<3>>, TRUE)

GridC == MkGrid(0, 6, <<3>>, TRUE)

same_domain_as(g, h) ==
    /\ Len(g.shape) = Len(h.shape)
    /\ g.center = h.center
    /\ g.direction = h.direction
    /\ g.extent = h.extent

(***************************************************************************)
(* Homogeneous matrices (core.linalg), rows are sequences                  *)
(***************************************************************************)
Identity == << <<1, 0, 0>>, <<0, 1, 0>> >>

as_homogeneous_matrix(m) ==
    IF Len(m[1]) = 1
    THEN << <<1, 0, m[1][1]>>, <<0, 1, m[2][1]>> >>
    ELSE IF Len(m[1]) = 2
         THEN << <<m[1][1], m[1][2], 0>>, <<m[2][1], m[2][2], 0>> >>
         ELSE m

homogeneous_matmul(a, b) ==
    LET p == as_homogeneous_matrix(a)
        q == as_homogeneous_matrix(b)
        row(i) == << p[i][1] * q[1][1] + p[i][2] * q[2][1],
                     p[i][1] * q[1][2] + p[i][2] * q[2][2],
                     p[i][1] * q[1][3] + p[i][2] * q[2][3] + p[i][3] >>
    IN  <<row(1), row(2)>>

\* mat += other, on (D, D+1) matrices
MatAdd(a, b) ==
    LET row(i) == <<a[i][1] + b[i][1], a[i][2] + b[i][2], a[i][3] + b[i][3]>>
    IN  <<row(1), row(2)>>

transform_points(m, x) ==
    LET h == as_homogeneous_matrix(m)
    IN  << h[1][1] * x[1] + h[1][2] * x[2] + h[1][3],
           h[2][1] * x[1] + h[2][2] * x[2] + h[2][3] >>

\* inverse of a homogeneous matrix whose linear part has determinant 1 or -1
MatInverse(m) ==
    LET h == as_homogeneous_matrix(m)
        det == h[1][1] * h[2][2] - h[1][2] * h[2][1]
        a == << <<det * h[2][2], -det * h[1][2]>>,
                <<-det * h[2][1], det * h[1][1]>> >>
    IN  << <<a[1][1], a[1][2], -(a[1][1] * h[1][3] + a[1][2] * h[2][3])>>,
           <<a[2][1], a[2][2], -(a[2][1] * h[1][3] + a[2][2] * h[2][3])>> >>

(***************************************************************************)
(* Member transforms                                                       *)
(***************************************************************************)
Translation == << <<1>>, <<2>> >>

Rotation == << <<0, -1>>, <<1, 0>> >>

Affine == << <<1, 1, 0>>, <<0, 1, 1>> >>

LinearTensors == {Translation, Rotation, Affine}

Linear(m, g) == [cls |-> "SpatialTransform", linear |-> TRUE, mat |-> m, sgn |-> 0, grid |-> g]

NonRigid(s, g) == [cls |-> "SpatialTransform", linear |-> FALSE, mat |-> <<>>, sgn |-> s, grid |-> g]

\* forward() of a member
MemberForward(t, x) ==
    IF t.linear
    THEN transform_points(t.mat, x)
    ELSE <<x[1], x[2] + t.sgn * (IF x[1] < 0 THEN -x[1] ELSE x[1])>>

\* inverse() of a member
MemberInverse(t) ==
    IF t.linear
    THEN [t EXCEPT !.mat = MatInverse(t.mat)]
    ELSE [t EXCEPT !.sgn = -t.sgn]

PointSeq == << <<0, 0>>, <<1, 0>>, <<1, 2>>, <<-1, 1>> >>

Points == {PointSeq[i] : i \in 1..Len(PointSeq)}

(***************************************************************************)
(* Constructor arguments of CompositeTransform.__init__                    *)
(***************************************************************************)
Blank(c) == [cls |-> c, linear |-> FALSE, mat |-> <<>>, sgn |-> 0, grid |-> GridA]

Arg(k, o, d) == [k |-> k, obj |-> o, items |-> d]

NoneArg == Arg("None", Blank("NoneType"), <<>>)

GridArg(g) == Arg("Grid", [Blank("Grid") EXCEPT !.grid = g], <<>>)

DictArg(d) == Arg("Dict", Blank("dict"), d)

ObjArg(t) == Arg("Obj", t, <<>>)

Junk == Blank("object")

Members ==
    {Linear(m, GridA) : m \in LinearTensors}
        \cup {NonRigid(1, GridA), Linear(Rotation, GridA5), Linear(Translation, GridB)}

DictValues == {Linear(Translation, GridA), Linear(Rotation, GridA), Linear(Affine, GridC), Junk}

DictNames == {"a", "0", "1"}

Entry(n, t) == [name |-> n, t |-> t]

Dicts ==
    {<<>>}
        \cup {<<Entry(n, t)>> : n \in DictNames, t \in DictValues}
        \cup {d \in {<<Entry(n1, t1), Entry(n2, t2)>> :
                         n1 \in DictNames, n2 \in DictNames, t1 \in DictValues, t2 \in DictValues} :
                 d[1].name # d[2].name}

PosItems == {ObjArg(t) : t \in Members \cup {Junk}} \cup {NoneArg}

SeqsUpTo(S, n) == UNION {[1..k -> S] : k \in 0..n}

Prefixes == {<<>>, <<NoneArg>>, <<GridArg(GridA)>>, <<GridArg(GridB)>>}

ArgLists ==
    {p \o r : p \in Prefixes, r \in SeqsUpTo(PosItems, MaxMembers)}
        \cup {p \o <<DictArg(d)>> : p \in Prefixes, d \in Dicts}
        \cup {<<DictArg(d), ObjArg(Linear(Translation, GridA))>> : d \in Dicts}

Classes == {"MultiLevelTransform", "SequentialTransform"}

(***************************************************************************)
(* CompositeTransform.__init__                                             *)
(***************************************************************************)
IsNotNone(a) == a.k # "None"

\* OrderedDict([(str(i), t) for i, t in enumerate(args_)])
RECURSIVE Enumerate(_, _)
Enumerate(as, i) ==
    IF as = <<>> THEN <<>>
    ELSE <<Entry(ToString(i), Head(as).obj)>> \o Enumerate(Tail(as), i + 1)

\* the loop without the domain check
RECURSIVE CheckMembersTypeOnly(_, _)
CheckMembersTypeOnly(ts, grid) ==
    IF ts = <<>> THEN "none"
    ELSE IF Head(ts).t.cls # "SpatialTransform" THEN "TypeError"
    ELSE CheckMembersTypeOnly(Tail(ts), grid)

\* the loop over transforms.items(): first failing check, in order
RECURSIVE CheckMembers(_, _)
CheckMembers(ts, grid) ==
    IF ts = <<>> THEN "none"
    ELSE IF Head(ts).t.cls # "SpatialTransform" THEN "TypeError"
    ELSE IF ~same_domain_as(Head(ts).t.grid, grid) THEN "ValueError"
    ELSE CheckMembers(Tail(ts), grid)

Failure(e) == [err |-> e, grid |-> GridA, transforms |-> <<>>]

CompositeInit(args) ==
    LET args0 == SelectSeq(args, IsNotNone)
    IN  IF args0 = <<>> THEN Failure("IndexError")
        ELSE
        LET hasGrid == args0[1].k = "Grid"
            args1 == IF hasGrid THEN Tail(args0) ELSE args0
            isDict == args1 # <<>> /\ args1[1].k = "Dict"
            transforms == IF args1 = <<>> THEN <<>>
                          ELSE IF isDict THEN args1[1].items
                          ELSE Enumerate(args1, 0)
        IN  IF isDict /\ Len(args1) > 1 THEN Failure("ValueError")
            ELSE IF ~hasGrid /\ transforms = <<>> THEN Failure("ValueError")
            ELSE IF ~hasGrid /\ transforms[1].t.cls # "SpatialTransform"
                 THEN Failure("AttributeError")
            ELSE
            LET grid == IF hasGrid THEN args0[1].obj.grid ELSE transforms[1].t.grid
                e == CheckMembers(transforms, grid)
            IN  IF e # "none" THEN Failure(e)
                ELSE [err |-> "none", grid |-> grid, transforms |-> transforms]

NewComposite(cls, r) == [cls |-> cls, grid |-> r.grid, transforms |-> r.transforms]

(***************************************************************************)
(* linear, tensor(), forward()                                             *)
(***************************************************************************)
IsLinear(c) == \A i \in 1..Len(c.transforms) : c.transforms[i].t.linear

\* mat += as_homogeneous_matrix(transform.tensor()) over transforms[1:]
RECURSIVE SumTensors(_, _)
SumTensors(mat, ts) ==
    IF ts = <<>> THEN mat
    ELSE SumTensors(MatAdd(mat, as_homogeneous_matrix(Head(ts).t.mat)), Tail(ts))

MultiLevelTensor(c) ==
    IF c.transforms = <<>> THEN Identity
    ELSE SumTensors(as_homogeneous_matrix(c.transforms[1].t.mat), Tail(c.transforms))

\* the accumulation with the factors swapped
RECURSIVE ComposeTensorsSwapped(_, _)
ComposeTensorsSwapped(mat, ts) ==
    IF ts = <<>> THEN mat
    ELSE ComposeTensorsSwapped(homogeneous_matmul(mat, Head(ts).t.mat), Tail(ts))

\* mat = homogeneous_matmul(transform.tensor(), mat) over transforms[1:]
RECURSIVE ComposeTensors(_, _)
ComposeTensors(mat, ts) ==
    IF ts = <<>> THEN mat
    ELSE ComposeTensors(homogeneous_matmul(Head(ts).t.mat, mat), Tail(ts))

SequentialTensor(c) ==
    IF c.transforms = <<>> THEN Identity
    ELSE ComposeTensors(c.transforms[1].t.mat, Tail(c.transforms))

CompositeTensor(c) ==
    IF c.cls = "MultiLevelTransform" THEN MultiLevelTensor(c) ELSE SequentialTensor(c)

\* SpatialTransform.forward of a linear transform: apply self.tensor()
BaseForward(c, x) == transform_points(CompositeTensor(c), x)

\* u += transform.forward(x) - x over all members
RECURSIVE SumDisplacements(_, _, _)
SumDisplacements(u, ts, x) ==
    IF ts = <<>> THEN u
    ELSE LET y == MemberForward(Head(ts).t, x)
         IN  SumDisplacements(<<u[1] + y[1] - x[1], u[2] + y[2] - x[2]>>, Tail(ts), x)

MultiLevelGeneral(c, x) ==
    LET u == SumDisplacements(<<0, 0>>, c.transforms, x)
    IN  <<x[1] + u[1], x[2] + u[2]>>

MultiLevelForward(c, x) ==
    IF Len(c.transforms) = 0 THEN x
    ELSE IF IsLinear(c) THEN BaseForward(c, x)
    ELSE MultiLevelGeneral(c, x)

\* y = transform.forward(y) over all members in order
RECURSIVE ApplyInOrder(_, _)
ApplyInOrder(ts, y) ==
    IF ts = <<>> THEN y
    ELSE ApplyInOrder(Tail(ts), MemberForward(Head(ts).t, y))

SequentialForward(c, x) ==
    IF IsLinear(c) THEN BaseForward(c, x)
    ELSE ApplyInOrder(c.transforms, x)

CompositeForward(c, x) ==
    IF c.cls = "MultiLevelTransform" THEN MultiLevelForward(c, x) ELSE SequentialForward(c, x)

(***************************************************************************)
(* SequentialTransform.inverse                                             *)
(***************************************************************************)
Reverse(s) == [i \in 1..Len(s) |-> s[Len(s) + 1 - i]]

\* the members inverted but left in their order
InvertedMembersInOrder(ts) ==
    [i \in 1..Len(ts) |-> Entry(ts[i].name, MemberInverse(ts[i].t))]

\* transforms[name] = transform.inverse(...) for name, transform in reversed(...)
InvertedMembers(ts) ==
    LET r == Reverse(ts)
    IN  [i \in 1..Len(r) |-> Entry(r[i].name, MemberInverse(r[i].t))]

\* heap after copy = shallow_copy(self); copy._transforms = transforms
SequentialInverse(os, i) ==
    Append(os, [os[i] EXCEPT !.transforms = InvertedMembers(os[i].transforms)])

\* CompositeTransform.disp() on the probe points
CompositeDisp(c) ==
    [i \in 1..Len(PointSeq) |->
        LET x == PointSeq[i]
            y == CompositeForward(c, x)
        IN  <<y[1] - x[1], y[2] - x[2]>>]

(***************************************************************************)
(* CompositeTransform.__contains__ and __getitem__                         *)
(***************************************************************************)
\* if isinstance(name, int): name = str(name)
KeyOf(name) == ToString(name)

\* positions, in iteration order, of the entries stored under the key
Positions(c, name) ==
    {k \in 1..Len(c.transforms) : c.transforms[k].name = KeyOf(name)}

\* name in self._transforms.keys()
Contains(c, name) == Positions(c, name) # {}

\* self._transforms[name]: the entry stored under the key, or KeyError
GetItem(c, name) ==
    IF Contains(c, name)
    THEN [err |-> "none", pos |-> CHOOSE k \in Positions(c, name) : TRUE]
    ELSE [err |-> "KeyError", pos |-> 0]

(***************************************************************************)
(* Calls on composites                                                     *)
(***************************************************************************)
Idle ==
    [op |-> "none", cls |-> "none", args |-> <<>>, err |-> "none", obj |-> 0, res |-> 0,
     x0 |-> <<0, 0>>, x |-> <<0, 0>>, y |-> <<0, 0>>, via |-> <<>>, mat |-> Identity,
     disp |-> <<>>, key |-> 0, found |-> FALSE, pos |-> 0]

CompositeVarsInit ==
    /\ objs = <<>>
    /\ origin = <<>>
    /\ last = Idle

\* a failed construction leaves nothing behind, so one attempt per behaviour
Construct(cls, args) ==
    /\ objs = <<>>
    /\ last.op = "none"
    /\ LET r == CompositeInit(args)
       IN  /\ objs' = IF r.err = "none" THEN <<NewComposite(cls, r)>> ELSE objs
           /\ origin' = IF r.err = "none" THEN <<0>> ELSE origin
           /\ last' = [Idle EXCEPT !.op = "construct", !.cls = cls, !.args = args,
                                   !.err = r.err, !.res = IF r.err = "none" THEN 1 ELSE 0]
    /\ UNCHANGED fvars

\* forward() on a probe point
Forward(i, x) ==
    /\ i \in 1..Len(objs)
    /\ last' = [Idle EXCEPT !.op = "forward", !.obj = i, !.x0 = x, !.x = x, !.via = <<i>>,
                            !.y = CompositeForward(objs[i], x)]
    /\ UNCHANGED <<objs, origin, fvars>>

\* forward() on the points the previous forward() returned: one composite
\* applied to the result of another
ForwardAgain(i) ==
    /\ i \in 1..Len(objs)
    /\ last.op = "forward"
    /\ Len(last.via) = 1
    /\ last' = [last EXCEPT !.obj = i, !.x = last.y, !.via = Append(last.via, i),
                            !.y = CompositeForward(objs[i], last.y)]
    /\ UNCHANGED <<objs, origin, fvars>>

TensorMatrix(i) ==
    /\ i \in 1..Len(objs)
    /\ IsLinear(objs[i])
    /\ last' = [Idle EXCEPT !.op = "tensor", !.obj = i, !.mat = CompositeTensor(objs[i])]
    /\ UNCHANGED <<objs, origin, fvars>>

TensorDisp(i) ==
    /\ i \in 1..Len(objs)
    /\ ~IsLinear(objs[i])
    /\ last' = [Idle EXCEPT !.op = "tensor", !.obj = i, !.disp = CompositeDisp(objs[i])]
    /\ UNCHANGED <<objs, origin, fvars>>

Inverse(i) ==
    /\ i \in 1..Len(objs)
    /\ objs[i].cls = "SequentialTransform"
    /\ Len(objs) < MaxObjs
    /\ objs' = SequentialInverse(objs, i)
    /\ origin' = Append(origin, i)
    /\ last' = [Idle EXCEPT !.op = "inverse", !.obj = i, !.res = Len(objs) + 1]
    /\ UNCHANGED fvars

\* i in composite, for an integer i
ContainsCall(i, name) ==
    /\ i \in 1..Len(objs)
    /\ last' = [Idle EXCEPT !.op = "contains", !.obj = i, !.key = name,
                            !.found = Contains(objs[i], name)]
    /\ UNCHANGED <<objs, origin, fvars>>

\* composite[i], for an integer i
GetItemCall(i, name) ==
    /\ i \in 1..Len(objs)
    /\ LET r == GetItem(objs[i], name)
       IN  last' = [Idle EXCEPT !.op = "getitem", !.obj = i, !.key = name,
                                !.err = r.err, !.pos = r.pos]
    /\ UNCHANGED <<objs, origin, fvars>>

\* integer keys tried by the callers: one below and one above every position
Keys == -1..MaxMembers

CompositeNext ==
    \/ last.op = "none" /\ \E cls \in Classes, args \in ArgLists : Construct(cls, args)
    \/ \E i \in 1..MaxObjs, x \in Points : Forward(i, x)
    \/ \E i \in 1..MaxObjs : ForwardAgain(i)
    \/ \E i \in 1..MaxObjs : TensorMatrix(i)
    \/ \E i \in 1..MaxObjs : TensorDisp(i)
    \/ \E i \in 1..MaxObjs : Inverse(i)

(***************************************************************************)
(* BSplineTransform: shapes                                                *)
(***************************************************************************)
DefaultStride == 5

NoStride == [k |-> "None", n |-> 0, s |-> <<>>]

IntStride(n) == [k |-> "int", n |-> n, s |-> <<>>]

SeqStride(q) == [k |-> "seq", n |-> 0, s |-> q]

\* stride as a sequence with one value per dimension, where a scalar is given
Broadcast(stride, ndim) ==
    IF stride.k = "None" THEN [i \in 1..ndim |-> DefaultStride]
    ELSE IF stride.k = "int" THEN [i \in 1..ndim |-> stride.n]
    ELSE stride.s

\* math.ceil(a / b) for a >= 0, b > 0
Ceil(a, b) == -((-a) \div b)

\* data_shape without the leading (ndim,): one lattice size per axis
DataShape(grid, stride) ==
    [i \in 1..Len(grid.shape) |-> Ceil(grid.shape[i] - 1, stride[i]) + 3]

\* length of K.cubic_bspline1d(s)
KernelSize(s) == 4 * s - 1

\* output length of the transposed convolution of m samples with stride s
ConvTransposeSize(m, s) ==
    LET k == KernelSize(s)
        padding == k \div 2
    IN  (m - 1) * s - 2 * padding + (k - 1) + 1

\* length of a[start:stop] for a of length len, 0 <= start <= stop
SliceSize(len, start, stop) ==
    LET lo == IF start < len THEN start ELSE len
        hi == IF stop < len THEN stop ELSE len
    IN  hi - lo

\* U.subdivide_cubic_bspline along one axis
SubdivideSize(m) == 2 * m - 3

(***************************************************************************)
(* BSplineTransform.register_kernels                                       *)
(***************************************************************************)
StrideValues == {1, 2, 3, DefaultStride}

\* the loop without the hasattr test
RECURSIVE RegisterKernelsAlways(_, _, _)
RegisterKernelsAlways(stride, have, computed) ==
    IF stride = <<>> THEN [kernels |-> have, computed |-> computed]
    ELSE RegisterKernelsAlways(Tail(stride), have \cup {Head(stride)},
                               Append(computed, Head(stride)))

\* the loop over stride: registered names and the kernels computed, in order
RECURSIVE RegisterKernels(_, _, _)
RegisterKernels(stride, have, computed) ==
    IF stride = <<>> THEN [kernels |-> have, computed |-> computed]
    ELSE IF Head(stride) \in have
         THEN RegisterKernels(Tail(stride), have, computed)
         ELSE RegisterKernels(Tail(stride), have \cup {Head(stride)},
                              Append(computed, Head(stride)))

Count(q, s) == Cardinality({i \in 1..Len(q) : q[i] = s})

(***************************************************************************)
(* BSplineTransform.__init__ and the subclasses' constructors              *)
(***************************************************************************)
Buffer(sh, ver, dir) == [shape |-> sh, ver |-> ver, dir |-> dir]

Zeros(sh) == Buffer(sh, -1, 0)

NoBuffer == Buffer(<<>>, -1, 0)

NoField ==
    [cls |-> "none", grid |-> GridA, stride |-> <<>>, params |-> "none", data |-> 0,
     link |-> 0, u |-> NoBuffer, v |-> NoBuffer, exp |-> 0, kernels |-> {}, copyof |-> 0]

FailedInit(e, allocs) ==
    [err |-> e, allocs |-> allocs, computed |-> <<>>, coeff |-> NoBuffer, field |-> NoField]

\* the transform and its tensors once the arguments are accepted; ref is the
\* index the coefficient tensor gets in the store
Constructed(cls, grid, params, strd, ref) ==
    LET self_stride == Reverse(strd)
        shape == DataShape(grid, self_stride)
        reg == RegisterKernels(strd, {}, <<>>)
        svf == cls = "StationaryVelocityFreeFormDeformation"
        allocs == (IF params = "tensor" THEN <<"params">> ELSE <<>>)
                      \o <<"u">>
                      \o [i \in 1..Len(reg.computed) |-> "kernel"]
                      \o (IF svf THEN <<"v">> ELSE <<>>)
    IN  [err |-> "none",
         allocs |-> allocs,
         computed |-> reg.computed,
         coeff |-> Buffer(shape, 0, 0),
         field |-> [cls |-> cls, grid |-> grid, stride |-> self_stride,
                    params |-> params, data |-> ref, link |-> 0,
                    u |-> Zeros(shape),
                    v |-> IF svf THEN Zeros(shape) ELSE NoBuffer,
                    exp |-> IF svf THEN 1 ELSE 0,
                    kernels |-> reg.kernels,
                    copyof |-> 0]]

\* the stride check made after the parameters and u are allocated
BSplineInitLateCheck(cls, grid, params, stride, ref) ==
    IF ~grid.align THEN FailedInit("ValueError", <<>>)
    ELSE IF Len(Broadcast(stride, Len(grid.shape))) # Len(grid.shape)
         THEN FailedInit("ValueError", <<"params", "u">>)
         ELSE Constructed(cls, grid, params, Broadcast(stride, Len(grid.shape)), ref)

\* allocs lists the tensors allocated or registered by the call, in order
BSplineInit(cls, grid, params, stride, ref) ==
    IF ~grid.align THEN FailedInit("ValueError", <<>>)
    ELSE
    LET ndim == Len(grid.shape)
        strd == Broadcast(stride, ndim)
    IN  IF Len(strd) # ndim THEN FailedInit("ValueError", <<>>)
        ELSE Constructed(cls, grid, params, strd, ref)

(***************************************************************************)
(* data(), evaluate_spline(), update()                                     *)
(***************************************************************************)
\* the coefficient tensor a field reads: its own, or the linked field's
DataRef(fs, i) == IF fs[i].link # 0 THEN fs[fs[i].link].data ELSE fs[i].data

\* the crop with the stop index not shifted by the stride
EvaluateShapeShortCrop(f, coeff) ==
    [i \in 1..Len(f.grid.shape) |->
        SliceSize(ConvTransposeSize(coeff.shape[i], f.stride[i]),
                  f.stride[i], f.grid.shape[i])]

\* spatial shape of evaluate_spline(): transposed convolution then the crop
EvaluateShape(f, coeff) ==
    [i \in 1..Len(f.grid.shape) |->
        SliceSize(ConvTransposeSize(coeff.shape[i], f.stride[i]),
                  f.stride[i], f.stride[i] + f.grid.shape[i])]

EvaluateSpline(f, coeff) == Buffer(EvaluateShape(f, coeff), coeff.ver, 0)

\* ExpFlow applied to v: the flow of v, or of -v for the inverted integrator
ExpFlow(e, v) == Buffer(v.shape, v.ver, e)

\* the assignments made to self instead of to a copy of it
SVFInverseAliased(fs, i, link, update_buffers) ==
    LET e == -fs[i].exp
        inv == [fs[i] EXCEPT !.copyof = i,
                             !.link = IF link THEN i ELSE @,
                             !.exp = e,
                             !.u = IF update_buffers THEN ExpFlow(e, fs[i].v) ELSE @]
    IN  Append([fs EXCEPT ![i] = [inv EXCEPT !.copyof = fs[i].copyof]], inv)

\* heap after inv = shallow_copy(self) and the assignments to inv's slots
SVFInverse(fs, i, link, update_buffers) ==
    LET e == -fs[i].exp
        inv == [fs[i] EXCEPT !.copyof = i,
                             !.link = IF link THEN i ELSE @,
                             !.exp = e,
                             !.u = IF update_buffers THEN ExpFlow(e, fs[i].v) ELSE @]
    IN  Append(fs, inv)

(***************************************************************************)
(* BSplineTransform.grid_                                                  *)
(***************************************************************************)
\* the size loop without the branch that rejects
CheckSizesAcceptAll(new, cur, i) == "none"

\* first failing check of grid_() for tensor parameters, in order
RECURSIVE CheckSizes(_, _, _)
CheckSizes(new, cur, i) ==
    IF i > Len(new) THEN "none"
    ELSE IF new[i] = 2 * cur[i] - 1 THEN CheckSizes(new, cur, i + 1)
    ELSE IF new[i] # cur[i] THEN "ValueError"
    ELSE CheckSizes(new, cur, i + 1)

CheckGrid(grid, current) ==
    IF Len(grid.shape) # Len(current.shape) THEN "ValueError"
    ELSE IF ~grid.align THEN "ValueError"
    ELSE IF ~same_domain_as(grid, current) THEN "ValueError"
    ELSE CheckSizes(grid.shape, current.shape, 1)

SubdivideDims(grid, current) ==
    {i \in 1..Len(grid.shape) : grid.shape[i] = 2 * current.shape[i] - 1}

\* shape of U.subdivide_cubic_bspline(params, dims)
Subdivided(shape, dims) ==
    [i \in 1..Len(shape) |-> IF i \in dims THEN SubdivideSize(shape[i]) ELSE shape[i]]

HasTensor(f) == f.params = "tensor" /\ f.link = 0

(***************************************************************************)
(* Calls on B-spline transforms                                            *)
(***************************************************************************)
FIdle ==
    [op |-> "none", obj |-> 0, err |-> "none", allocs |-> <<>>, grid |-> GridA,
     stride |-> NoStride, res |-> 0, link |-> FALSE, upd |-> FALSE]

FieldVarsInit ==
    /\ fields = <<>>
    /\ store = <<>>
    /\ kcalls = [s \in StrideValues |-> 0]
    /\ flast = FIdle

FConstruct(cls, grid, params, stride) ==
    /\ Len(fields) < MaxFields
    /\ LET r == BSplineInit(cls, grid, params, stride, Len(store) + 1)
           ok == r.err = "none"
       IN  /\ fields' = IF ok THEN Append(fields, r.field) ELSE fields
           /\ store' = IF ok THEN Append(store, r.coeff) ELSE store
           /\ kcalls' = [s \in StrideValues |-> kcalls[s] + Count(r.computed, s)]
           /\ flast' = [FIdle EXCEPT !.op = "construct", !.err = r.err, !.allocs = r.allocs,
                                     !.grid = grid, !.stride = stride,
                                     !.res = IF ok THEN Len(fields) + 1 ELSE 0]
    /\ UNCHANGED cvars

\* update(): the parameter generator runs first, then evaluate_spline(), then
\* for the velocity model the integration; fault = "exp" is a failing ExpFlow
FUpdate(i, fault) ==
    /\ i \in 1..Len(fields)
    /\ fault = "exp" => fields[i].exp # 0
    /\ LET f == fields[i]
           generated == IF f.params = "callable" /\ f.link = 0
                        THEN [store EXCEPT ![f.data] =
                                 Buffer(DataShape(f.grid, f.stride), @.ver, 0)]
                        ELSE store
           coeff == generated[DataRef(fields, i)]
           y == EvaluateSpline(f, coeff)
       IN  /\ store' = generated
           /\ IF ~f.grid.align
              THEN /\ fields' = fields
                   /\ flast' = [FIdle EXCEPT !.op = "update", !.obj = i,
                                             !.err = "AssertionError"]
              ELSE IF f.exp = 0
              THEN /\ fields' = [fields EXCEPT ![i].u = y]
                   /\ flast' = [FIdle EXCEPT !.op = "update", !.obj = i]
              ELSE IF fault = "exp"
              THEN /\ fields' = [fields EXCEPT ![i].v = y]
                   /\ flast' = [FIdle EXCEPT !.op = "update", !.obj = i,
                                             !.err = "RuntimeError"]
              ELSE /\ fields' = [fields EXCEPT ![i].v = y, ![i].u = ExpFlow(f.exp, y)]
                   /\ flast' = [FIdle EXCEPT !.op = "update", !.obj = i]
    /\ UNCHANGED <<kcalls, cvars>>

FInverse(i, link, update_buffers) ==
    /\ i \in 1..Len(fields)
    /\ fields[i].exp # 0
    /\ Len(fields) < MaxFields
    /\ fields' = SVFInverse(fields, i, link, update_buffers)
    /\ flast' = [FIdle EXCEPT !.op = "inverse", !.obj = i, !.res = Len(fields) + 1,
                              !.link = link, !.upd = update_buffers]
    /\ UNCHANGED <<store, kcalls, cvars>>

\* a generator is only ever handed a grid of the dimension it produces
FGrid(i, grid) ==
    /\ i \in 1..Len(fields)
    /\ HasTensor(fields[i]) \/ Len(grid.shape) = Len(fields[i].grid.shape)
    /\ LET f == fields[i]
           e == IF HasTensor(f) THEN CheckGrid(grid, f.grid) ELSE "none"
           dims == IF HasTensor(f) THEN SubdivideDims(grid, f.grid) ELSE {}
       IN  /\ flast' = [FIdle EXCEPT !.op = "grid_", !.obj = i, !.err = e, !.grid = grid]
           /\ IF e # "none"
              THEN UNCHANGED <<fields, store>>
              ELSE IF dims # {}
              THEN /\ store' = Append(store, [store[f.data] EXCEPT
                                                 !.shape = Subdivided(@, dims)])
                   /\ fields' = [fields EXCEPT ![i].data = Len(store) + 1, ![i].grid = grid]
              ELSE /\ store' = store
                   /\ fields' = [fields EXCEPT ![i].grid = grid]
    /\ UNCHANGED <<kcalls, cvars>>

\* an optimizer step or reset writes new values into a coefficient tensor
FStep(r) ==
    /\ r \in 1..Len(store)
    /\ store[r].ver < MaxVer
    /\ store' = [store EXCEPT ![r].ver = @ + 1]
    /\ flast' = [FIdle EXCEPT !.op = "step", !.res = r]
    /\ UNCHANGED <<fields, kcalls, cvars>>

FieldClasses == {"FreeFormDeformation", "StationaryVelocityFreeFormDeformation"}

Shapes1 == {<<1>>, <<2>>, <<3>>, <<4>>}

Shapes2 == {<<3, 2>>, <<4, 3>>}

InitGrids ==
    {MkGrid(0, 4, sh, TRUE) : sh \in Shapes1 \cup Shapes2}
        \cup {MkGrid(0, 4, <<3>>, FALSE), MkGrid(0, 4, <<3, 2>>, FALSE)}

Strides ==
    {NoStride} \cup {IntStride(n) : n \in 1..3}
        \cup {SeqStride(q) : q \in {<<2>>, <<2, 2>>, <<3, 2>>, <<1, 2, 3>>}}

RebindGrids ==
    {MkGrid(0, 4, sh, TRUE) : sh \in {<<3>>, <<5>>, <<4>>, <<3, 2>>, <<5, 2>>, <<5, 3>>, <<5, 4>>}}
        \cup {MkGrid(0, 4, <<5>>, FALSE), MkGrid(1, 4, <<5>>, TRUE), MkGrid(0, 4, <<5, 3>>, FALSE)}

First(cls, grid, params, stride) ==
    fields = <<>> /\ flast.op = "none" /\ FConstruct(cls, grid, params, stride)

\* one transform: construction, update(), grid_() and optimizer steps
FieldNext ==
    \/ /\ flast.op = "none"
       /\ \E cls \in FieldClasses, grid \in InitGrids, params \in {"tensor", "callable"},
             stride \in Strides : First(cls, grid, params, stride)
    \/ \E fault \in {"none", "exp"} : FUpdate(1, fault)
    \/ \E grid \in RebindGrids : FGrid(1, grid)
    \/ FStep(1)

\* a transform and the copies inverse() returns
InverseNext ==
    \/ \E cls \in FieldClasses, params \in {"tensor", "callable"}, stride \in {IntStride(2)} :
          First(cls, MkGrid(0, 4, <<3, 2>>, TRUE), params, stride)
    \/ \E i \in 1..MaxFields, fault \in {"none", "exp"} : FUpdate(i, fault)
    \/ \E i \in 1..MaxFields, link \in BOOLEAN, upd \in BOOLEAN : FInverse(i, link, upd)
    \/ \E r \in 1..MaxFields : FStep(r)

\* any number of constructions
ConstructNext ==
    \E grid \in InitGrids, stride \in Strides :
        FConstruct("FreeFormDeformation", grid, "tensor", stride)

\* a composite, its inverses, and lookups by integer
LookupNext ==
    \/ last.op = "none" /\ \E cls \in Classes, args \in ArgLists : Construct(cls, args)
    \/ \E i \in 1..MaxObjs : Inverse(i)
    \/ \E i \in 1..MaxObjs, name \in Keys : ContainsCall(i, name)
    \/ \E i \in 1..MaxObjs, name \in Keys : GetItemCall(i, name)

Init == CompositeVarsInit /\ FieldVarsInit

Next == CompositeNext

Spec == Init /\ [][Next]_vars

SpecField == Init /\ [][FieldNext]_vars

SpecInverse == Init /\ [][InverseNext]_vars

SpecConstruct == Init /\ [][ConstructNext]_vars

SpecLookup == Init /\ [][LookupNext]_vars

(***************************************************************************)
(* Properties of composites                                                *)
(***************************************************************************)
Called(op) == last.op = op /\ last.err = "none"

Target == objs[last.obj]

\* C1: for an additive composite whose members are all linear (k >= 1), the
\* matrix fast path of forward() returns, for every point x, the sum of
\* displacements x + sum_i (T_i(x) - x).
C1_FastPathIsSumOfDisplacements ==
    (/\ Called("forward")
     /\ Len(last.via) = 1
     /\ Target.cls = "MultiLevelTransform"
     /\ Len(Target.transforms) >= 1
     /\ IsLinear(Target))
        => last.y = MultiLevelGeneral(Target, last.x)

\* m undoes t on every probe point
Undoes(m, t) == \A x \in Points : MemberForward(m, MemberForward(t, x)) = x

\* C2: inverse() of a sequential composite returns a copy whose members are
\* the inverses of the members in reversed order, under the same names, and
\* leaves the composite itself as it was; applying the copy to the result of
\* the composite returns the point one started from.
C2_InverseStructure ==
    (last'.op = "inverse" /\ last' # last) =>
        LET i == last'.obj
            j == last'.res
            n == Len(objs[i].transforms)
        IN  /\ j = Len(objs) + 1
            /\ Len(objs') = j
            /\ \A k \in 1..Len(objs) : objs'[k] = objs[k]
            /\ objs'[j].cls = objs[i].cls
            /\ objs'[j].grid = objs[i].grid
            /\ Len(objs'[j].transforms) = n
            /\ \A k \in 1..n :
                 /\ objs'[j].transforms[k].name = objs[i].transforms[n + 1 - k].name
                 /\ Undoes(objs'[j].transforms[k].t, objs[i].transforms[n + 1 - k].t)

C2_RoundTrip ==
    (/\ Called("forward")
     /\ Len(last.via) = 2
     /\ origin[last.via[2]] = last.via[1])
        => last.y = last.x0

C2_InverseOfSequential == [][C2_InverseStructure]_vars /\ []C2_RoundTrip

C2_Witness ==
    /\ Called("forward")
    /\ Len(last.via) = 2
    /\ origin[last.via[2]] = last.via[1]
    /\ Len(objs[last.via[1]].transforms) >= 2
    /\ objs[last.via[1]].transforms[1].t # objs[last.via[1]].transforms[2].t
    /\ last.x # last.x0
    /\ last.y = last.x0

\* C3: for a sequential composite of linear members the matrix tensor()
\* returns maps every point to T_n(...T_1(x)...), the members applied one
\* after another in insertion order; it is the identity when there are none.
C3_TensorIsComposition ==
    (/\ Called("tensor")
     /\ Target.cls = "SequentialTransform"
     /\ IsLinear(Target))
        => \A x \in Points : transform_points(last.mat, x) = ApplyInOrder(Target.transforms, x)

C3_Witness ==
    /\ Called("tensor")
    /\ Target.cls = "SequentialTransform"
    /\ IsLinear(Target)
    /\ Len(Target.transforms) >= 2
    /\ \E x \in Points :
         ApplyInOrder(Target.transforms, x) # ApplyInOrder(Reverse(Target.transforms), x)

\* the error kinds construction raises for a bad configuration: ValueError,
\* and TypeError for a member that is not a spatial transform
ConfigurationError == {"ValueError", "TypeError"}

GivenArgs(args) == SelectSeq(args, IsNotNone)

GridGiven(args) == GivenArgs(args) # <<>> /\ GivenArgs(args)[1].k = "Grid"

\* the members handed to the constructor, in order
GivenMembers(args) ==
    LET rest == IF GridGiven(args) THEN Tail(GivenArgs(args)) ELSE GivenArgs(args)
    IN  IF rest # <<>> /\ rest[1].k = "Dict"
        THEN [i \in 1..Len(rest[1].items) |-> rest[1].items[i].t]
        ELSE [i \in 1..Len(rest) |-> rest[i].obj]

IsTransform(t) == t.cls = "SpatialTransform"

\* the composite's domain is the given one or the first member's
DomainKnown(args) ==
    GridGiven(args) \/ (GivenMembers(args) # <<>> /\ IsTransform(GivenMembers(args)[1]))

DomainOf(args) ==
    IF GridGiven(args) THEN GivenArgs(args)[1].obj.grid ELSE GivenMembers(args)[1].grid

ForeignMember(args) ==
    /\ DomainKnown(args)
    /\ \E i \in 1..Len(GivenMembers(args)) :
         /\ IsTransform(GivenMembers(args)[i])
         /\ ~same_domain_as(GivenMembers(args)[i].grid, DomainOf(args))

\* C4: construction fails with a configuration error and creates no composite
\* whenever a member's domain differs from the composite's domain (given or
\* taken from the first member); every composite that exists has only members
\* on its own domain.
C4_DomainMismatchRejected ==
    /\ (last.op = "construct" /\ ForeignMember(last.args))
          => (last.err \in ConfigurationError /\ objs = <<>>)
    /\ \A i \in 1..Len(objs) : \A k \in 1..Len(objs[i].transforms) :
          same_domain_as(objs[i].transforms[k].t.grid, objs[i].grid)

C4_Witness ==
    /\ last.op = "construct"
    /\ ForeignMember(last.args)
    /\ ~GridGiven(last.args)
    /\ Len(GivenMembers(last.args)) >= 2
    /\ \A i \in 1..Len(GivenMembers(last.args)) : IsTransform(GivenMembers(last.args)[i])
    /\ last.err = "ValueError"
    /\ objs = <<>>

EmptyConstruction(args) ==
    \/ GivenArgs(args) = <<>>
    \/ GivenArgs(args) = <<DictArg(<<>>)>>

\* C5: construction with no domain and no members (no arguments, only None
\* arguments, or an empty mapping) fails with the configuration error.
C5_EmptyConstructionIsConfigurationError ==
    (last.op = "construct" /\ EmptyConstruction(last.args))
        => last.err \in ConfigurationError

(***************************************************************************)
(* Properties of B-spline transforms                                       *)
(***************************************************************************)
BadConfiguration(grid, stride) ==
    \/ ~grid.align
    \/ stride.k = "seq" /\ Len(stride.s) # Len(grid.shape)

\* C6: construction fails with a configuration error when the grid is not
\* align_corners or the stride has not one value per dimension, and by then
\* no parameter, no buffer u and no kernel has been allocated or registered.
C6_Step ==
    (flast'.op = "construct" /\ BadConfiguration(flast'.grid, flast'.stride)) =>
        /\ flast'.err \in ConfigurationError
        /\ flast'.allocs = <<>>
        /\ fields' = fields
        /\ store' = store
        /\ kcalls' = kcalls

C6_ConstructionFailsFast == [][C6_Step]_vars

C6_Witness ==
    /\ flast.op = "construct"
    /\ flast.grid.align
    /\ flast.stride.k = "seq"
    /\ Len(flast.stride.s) > Len(flast.grid.shape)
    /\ flast.err = "ValueError"
    /\ fields = <<>>

\* the lattice of field i has ceil((n - 1) / s) + 3 points on every axis
FreshLattice(i) ==
    LET f == fields[i]
        lattice == store[DataRef(fields, i)].shape
    IN  /\ Len(lattice) = Len(f.grid.shape)
        /\ \A a \in 1..Len(lattice) :
             lattice[a] = (f.grid.shape[a] - 1 + f.stride[a] - 1) \div f.stride[a] + 3

Evaluated(f) == IF f.exp = 0 THEN f.u ELSE f.v

\* C7: for every grid size n >= 1 and stride s >= 1, with a lattice of
\* ceil((n - 1) / s) + 3 coefficients on an axis, the crop [s, s + n) lies
\* inside the output of the transposed convolution and the evaluated field
\* has exactly n samples on that axis.
C7_EvaluateMatchesGrid ==
    (flast.op = "update" /\ flast.err = "none" /\ FreshLattice(flast.obj)) =>
        LET f == fields[flast.obj]
            lattice == store[DataRef(fields, flast.obj)].shape
        IN  /\ Evaluated(f).shape = f.grid.shape
            /\ \A a \in 1..Len(lattice) :
                 f.stride[a] + f.grid.shape[a] <= ConvTransposeSize(lattice[a], f.stride[a])

C7_Witness ==
    /\ flast.op = "update"
    /\ flast.err = "none"
    /\ FreshLattice(flast.obj)
    /\ LET f == fields[flast.obj]
       IN  /\ Len(f.grid.shape) = 2
           /\ f.stride[1] # f.stride[2]
           /\ \E a \in 1..2 : (f.grid.shape[a] - 1) % f.stride[a] # 0
           /\ Evaluated(f).shape = f.grid.shape

BadRebind(new, cur) ==
    \/ Len(new.shape) # Len(cur.shape)
    \/ ~new.align
    \/ new.center # cur.center
    \/ new.direction # cur.direction
    \/ new.extent # cur.extent
    \/ \E a \in 1..Len(new.shape) :
         /\ a <= Len(cur.shape)
         /\ new.shape[a] # cur.shape[a]
         /\ new.shape[a] # 2 * cur.shape[a] - 1

\* C8: for stored tensor coefficients grid_() fails with a configuration error
\* if the new grid has another dimension, is not align_corners, is another
\* domain, or has on some axis a size that is neither n nor 2n - 1; the
\* coefficients and the grid are then as before the call.
C8_Step ==
    (/\ flast'.op = "grid_"
     /\ flast'.obj \in 1..Len(fields)
     /\ HasTensor(fields[flast'.obj])
     /\ BadRebind(flast'.grid, fields[flast'.obj].grid)) =>
        /\ flast'.err \in ConfigurationError
        /\ fields' = fields
        /\ store' = store

C8_RebindRejected == [][C8_Step]_vars

C8_Witness ==
    /\ flast.op = "grid_"
    /\ flast.err = "ValueError"
    /\ HasTensor(fields[flast.obj])
    /\ LET new == flast.grid
           cur == fields[flast.obj].grid
       IN  /\ Len(new.shape) = 2
           /\ Len(cur.shape) = 2
           /\ new.align
           /\ same_domain_as(new, cur)
           /\ new.shape[1] = 2 * cur.shape[1] - 1
           /\ new.shape[1] # cur.shape[1]
           /\ new.shape[2] # cur.shape[2]
           /\ new.shape[2] # 2 * cur.shape[2] - 1

\* C9: inverse() leaves the transform as it is and returns a copy that reads
\* the same coefficient tensor and integrates in the opposite direction;
\* computing the copy's u, in inverse() or in a later update(), does not
\* change the u of any other transform.
C9_Step ==
    /\ (flast'.op = "inverse" /\ flast' # flast) =>
          /\ \A k \in 1..Len(fields) : fields'[k] = fields[k]
          /\ store' = store
          /\ fields'[flast'.res].exp = -fields[flast'.obj].exp
          /\ flast'.upd => fields'[flast'.res].u.dir = -fields[flast'.obj].exp
    /\ (flast'.op = "update") =>
          /\ \A k \in 1..Len(fields) : k # flast'.obj => fields'[k] = fields[k]
          /\ flast'.err = "none" => fields'[flast'.obj].u.dir = fields[flast'.obj].exp

C9_Shared ==
    \A j \in 1..Len(fields) :
        LET i == fields[j].copyof
        IN  i # 0 =>
              /\ fields[j].exp = -fields[i].exp
              /\ DataRef(fields, j) = DataRef(fields, i)

Owners(s) == {i \in 1..Len(fields) : s \in fields[i].kernels}

StrideSet(f) == {f.stride[a] : a \in 1..Len(f.stride)}

C11_Step ==
    (flast'.op = "update" /\ flast'.err # "none")
        => /\ fields'[flast'.obj].u = fields[flast'.obj].u
           /\ fields'[flast'.obj].v = fields[flast'.obj].v

\* C11: an update() that fails, at the alignment check of evaluate_spline()
\* or at the integration of v into u, leaves the buffers u and v of the
\* transform with their contents from before the call.
C11_UpdateIsAllOrNothing == [][C11_Step]_vars

\* C13: after a successful construction and any number of successful grid_()
\* calls, with a stored coefficient tensor or with a generator, the grid of
\* the transform has align_corners true, and update() never fails at the
\* alignment check of evaluate_spline().
C13_DomainStaysAligned ==
    /\ \A i \in 1..Len(fields) : fields[i].grid.align
    /\ flast.op = "update" => flast.err # "AssertionError"

\* C14: for a transform with a stored coefficient tensor, after construction
\* and after every successful grid_(), the lattice size of the tensor on
\* every axis is ceil((n - 1) / s) + 3 for the current grid size n and the
\* stride s of the axis, whether or not s divides n - 1.
C14_LatticeMatchesGrid ==
    \A i \in 1..Len(fields) :
        HasTensor(fields[i])
            => store[fields[i].data].shape = DataShape(fields[i].grid, fields[i].stride)

(***************************************************************************)
(* Properties of lookups on composites                                     *)
(***************************************************************************)
NumMembers == Len(objs[last.obj].transforms)

\* C12: on a composite built from positional members or from a named mapping,
\* and on every inverse() of it, composite[i] is the i-th member in iteration
\* order, and i in composite holds exactly when 0 <= i < len(composite).
C12_LookupByPosition ==
    /\ last.op = "contains"
           => (last.found <=> (0 <= last.key /\ last.key < NumMembers))
    /\ (last.op = "getitem" /\ 0 <= last.key /\ last.key < NumMembers)
           => (last.err = "none" /\ last.pos = last.key + 1)

====
